---------------------------- MODULE Spec2Model ----------------------------
(***************************************************************************)
(* The ECG help-desk server: a JSON file of records behind five HTTP       *)
(* handlers, and an in-memory set of developer tokens that expire by       *)
(* timer.  Strings the code inspects (text fields, phone numbers, route    *)
(* parameters) are sequences of one-character strings; a handler is cut    *)
(* into steps at its awaits (fs.readFile, fs.writeFile), which are the     *)
(* only places where another request can run.                              *)
(***************************************************************************)
EXTENDS Integers, Sequences, FiniteSets, TLC

(***************************************************************************)
(* Bounds of the model.                                                    *)
(***************************************************************************)
\* Records the handlers add to the file, clock ticks, and tokens issued.
MaxRecords == 2
MaxTicks == 3
MaxLogins == 2

\* The clock advances in steps of twelve hours.
TickMs == 12 * 60 * 60 * 1000
\* Times are Date.now() less its value when the server starts.
StartMs == 0
\* Request handlers that can be in flight at once.
Slots == {1, 2}

(***************************************************************************)
(* Program constants.                                                      *)
(***************************************************************************)
DEVELOPER_CODES == {"letmein", "DEV-ECG-2024-ALPHA", "ECG-DEV-ADMIN-001", "ECG-IT-DEV-ACCESS"}
\* The delay given to setTimeout at login.
TokenTtlMs == 24 * 60 * 60 * 1000

(***************************************************************************)
(* JavaScript values.                                                      *)
(***************************************************************************)
\* A property the request body does not have.
Undefined == <<"undefined">>
\* !x for a string or undefined x.
Falsy(x) == x = Undefined \/ x = <<>>

WhiteSpace == {" ", "\t", "\n"}
Digits == {"0", "1", "2", "3", "4", "5", "6", "7", "8", "9"}

RECURSIVE TrimStart(_)
TrimStart(s) == IF s # <<>> /\ Head(s) \in WhiteSpace THEN TrimStart(Tail(s)) ELSE s
RECURSIVE TrimEnd(_)
TrimEnd(s) ==
    IF s # <<>> /\ s[Len(s)] \in WhiteSpace THEN TrimEnd(SubSeq(s, 1, Len(s) - 1)) ELSE s
\* String.prototype.trim
trim(s) == TrimEnd(TrimStart(s))

\* /^(\+233|0)[0-9]{9}$/.test(p)
phonePatternNoAnchor(p) ==
    \/ Len(p) >= 10 /\ p[1] = "0" /\ \A k \in 2..10 : p[k] \in Digits
    \/ Len(p) >= 13 /\ SubSeq(p, 1, 4) = <<"+", "2", "3", "3">>
                    /\ \A k \in 5..13 : p[k] \in Digits
phonePattern(p) ==
    \/ Len(p) = 10 /\ p[1] = "0" /\ \A k \in 2..10 : p[k] \in Digits
    \/ Len(p) = 13 /\ SubSeq(p, 1, 4) = <<"+", "2", "3", "3">>
                   /\ \A k \in 5..13 : p[k] \in Digits

\* Math.max over a non-empty set of integers.
MathMax(S) == CHOOSE m \in S : \A x \in S : x <= m
\* r.id || 0
IdOrZero(r) == IF r.id # 0 THEN r.id ELSE 0
\* records.length > 0 ? Math.max(...records.map(r => r.id || 0)) + 1 : 1
nextIdFromLength(records) == Len(records) + 1
nextId(records) ==
    IF Len(records) > 0
    THEN MathMax({IdOrZero(records[k]) : k \in 1..Len(records)}) + 1
    ELSE 1

\* The index of the first record with the id, or 0 (findIndex's -1).
RECURSIVE findIndexFrom(_, _, _)
findIndexFrom(records, ids, k) ==
    IF k > Len(records) THEN 0
    ELSE IF records[k].id \in ids THEN k
    ELSE findIndexFrom(records, ids, k + 1)
\* A faulty variant: -1 goes unnoticed, and splice(-1, 1) takes the last record.
findIndexOrLast(records, ids) ==
    IF findIndexFrom(records, ids, 1) = 0 THEN Len(records)
    ELSE findIndexFrom(records, ids, 1)
findIndex(records, ids) == findIndexFrom(records, ids, 1)

\* records.splice(index, 1)
\* A variant that fills the hole with the last record.
spliceSwap(records, index) ==
    IF index = Len(records) THEN SubSeq(records, 1, index - 1)
    ELSE [k \in 1..(Len(records) - 1) |->
             IF k = index THEN records[Len(records)] ELSE records[k]]
\* A variant that blanks the record where it stands and removes nothing.
spliceBlank(records, index) == [records EXCEPT ![index] = [id |-> 0, vendorName |-> <<>>, location |-> <<>>, phone |-> <<>>,
                                issue |-> <<>>, date |-> 0]]
spliceToEnd(records, index) == SubSeq(records, 1, index - 1)
splice(records, index) ==
    SubSeq(records, 1, index - 1) \o SubSeq(records, index + 1, Len(records))


\* parseInt(s) with no radix: {} is NaN, {n} is the integer n.
DigitChars == <<"0", "1", "2", "3", "4", "5", "6", "7", "8", "9",
                "a", "b", "c", "d", "e", "f">>
UpperChars == <<"0", "1", "2", "3", "4", "5", "6", "7", "8", "9",
                "A", "B", "C", "D", "E", "F">>
DigitValue(c, radix) ==
    {k - 1 : k \in {k \in 1..radix : DigitChars[k] = c \/ UpperChars[k] = c}}
\* The value of the longest prefix of s made of digits, reading on from acc.
RECURSIVE ParseDigits(_, _, _)
ParseDigits(s, radix, acc) ==
    IF s = <<>> \/ DigitValue(Head(s), radix) = {} THEN acc
    ELSE ParseDigits(Tail(s), radix,
                     acc * radix + (CHOOSE v \in DigitValue(Head(s), radix) : TRUE))
ParseUnsigned(s) ==
    LET hex  == Len(s) >= 2 /\ s[1] = "0" /\ s[2] \in {"x", "X"}
        body == IF hex THEN SubSeq(s, 3, Len(s)) ELSE s
        radix == IF hex THEN 16 ELSE 10
    IN  IF body = <<>> \/ DigitValue(Head(body), radix) = {} THEN {}
        ELSE {ParseDigits(body, radix, 0)}
parseInt(s) ==
    LET t == TrimStart(s)
    IN  IF t = <<>> THEN {}
        ELSE IF Head(t) = "-" THEN {0 - n : n \in ParseUnsigned(Tail(t))}
        ELSE IF Head(t) = "+" THEN ParseUnsigned(Tail(t))
        ELSE ParseUnsigned(t)

(***************************************************************************)
(* The Authorization header is kept in two pieces, its first seven         *)
(* characters and the rest, which is what startsWith('Bearer ') and        *)
(* substring(7) look at.  A token is the triple of the three parts of      *)
(* `dev_token_${Date.now()}_${random}`: the two generated parts cannot     *)
(* hold the separator, so two tokens are equal exactly when their parts    *)
(* are.                                                                    *)
(***************************************************************************)
NoHeader == [present |-> FALSE, first7 |-> "", rest |-> <<>>]
Header(scheme, t) == [present |-> TRUE, first7 |-> scheme, rest |-> t]
Bearer(t) == Header("Bearer ", t)
\* A well-formed token that no login returned.
ForgedToken == <<"dev_token", 0 - 1, "zzzzzzzzz">>
\* Math.random().toString(36).substr(2, 9)
RandomSuffixes == {"k3f9a0b1c", "x9q2m7p4d"}
MakeTokenNoTime(time, suffix) == <<"dev_token", 0, suffix>>
MakeToken(time, suffix) == <<"dev_token", time, suffix>>

(***************************************************************************)
(* Dates.  new Date().toISOString() and new Date(record.date) carry the    *)
(* millisecond timestamp unchanged, so a date is kept as that timestamp.   *)
(* The server starts twelve hours before the midnight (UTC) that begins a  *)
(* month, here called month 2.                                             *)
(***************************************************************************)
DayMs == 24 * 60 * 60 * 1000
MidnightMs == 12 * 60 * 60 * 1000
\* d.toISOString().slice(0, 7), for the dates the clock can reach.
isoMonth(t) == IF t < MidnightMs THEN "month-1" ELSE "month-2"
\* d.toDateString(): the calendar day in the server's time zone, counted from
\* three days before that midnight.
toDateString(t, tz) == (t - MidnightMs + 3 * DayMs + tz) \div DayMs

(***************************************************************************)
(* Inputs.                                                                 *)
(***************************************************************************)
Phone0 == <<"0", "5", "0", "1", "2", "3", "4", "5", "6", "7">>
PhonePlus == <<"+", "2", "3", "3", "5", "0", "1", "2", "3", "4", "5", "6", "7">>
PhoneInputs ==
    { <<" ">>, Phone0 \o <<"\n">>, <<"1", "2", "3", "4", "5">>,
      <<"+", "1", "2", "3", "4", "5", "6", "7", "8", "9", "0">>, Undefined }
BaseBody ==
    [vendorName |-> <<"v">>, location |-> <<"l">>, phone |-> Phone0, issue |-> <<"i">>]
\* Every text field padded with white space.
PaddedBody ==
    [vendorName |-> <<" ", "v", "\t">>, location |-> <<"l", " ">>, phone |-> Phone0,
     issue |-> <<"\n", "i">>]
\* A vendor name of white space, and the other phone format.
BlankBody == [BaseBody EXCEPT !.vendorName = <<" ">>, !.phone = PhonePlus]
CreateBodies ==
    {BaseBody, PaddedBody, BlankBody}
    \cup {[BaseBody EXCEPT !.vendorName = t] : t \in {<<>>}}
    \cup {[BaseBody EXCEPT !.location = t] : t \in {Undefined}}
    \cup {[BaseBody EXCEPT !.issue = t] : t \in {<<>>}}
    \cup {[BaseBody EXCEPT !.phone = t] : t \in PhoneInputs}

\* The fewer bodies sent where the handlers interleave.
StoreBodies == {BaseBody, PaddedBody, [BaseBody EXCEPT !.phone = <<"1", "2", "3", "4", "5">>]}

\* req.body.code of a login: a string, or no such property.
NoCode == [defined |-> FALSE, value |-> ""]
Code(c) == [defined |-> TRUE, value |-> c]
CodeInputs ==
    {NoCode} \cup {Code(c) : c \in {"letmein", "ECG-IT-DEV-ACCESS", "", "LETMEIN", "letmein "}}

\* req.params.id of a delete.
IdParams ==
    { <<"1">>, <<" ", "2">>, <<"6", "x">>, <<"x">>, <<"0", "x", "1">>, <<"5">> }

\* The fewer ids sent where the clock runs.
ClockParams == {<<"5">>, <<"x">>}

(***************************************************************************)
(* State.                                                                  *)
(***************************************************************************)
VARIABLES
    file,         \* data/records.json: parseable or not, and the array it holds
    validTokens,  \* the Set of tokens
    timers,       \* the pending setTimeout callbacks: token and due time
    now,          \* Date.now()
    reqs,         \* the handlers suspended at an await, by slot
    last,         \* the response sent by the step that led here, if it sent one
    logins,       \* every token a login returned, with its time of issue
    built,        \* history: the records that creates answered 201 have returned
    served,       \* history: the array of the latest list since a save, if any
    shadow        \* history: the collection as appends and removals make it

vars == <<file, validTokens, timers, now, reqs, last, logins, built, served, shadow>>

Unparseable == [ok |-> FALSE, data |-> <<>>]
EmptyFile == [ok |-> TRUE, data |-> <<>>]
NoRecord ==
    [id |-> 0, vendorName |-> <<>>, location |-> <<>>, phone |-> <<>>, issue |-> <<>>,
     date |-> 0]
\* Records left in the file by an earlier run of the server.  Their ids are
\* above the cap on new ids: the file takes new records once they are gone.
SeedRecord(id, name) ==
    [id |-> id, vendorName |-> <<name>>, location |-> <<"l">>, phone |-> Phone0,
     issue |-> <<"i">>, date |-> StartMs - DayMs]
SeedFile ==
    [ok |-> TRUE, data |-> <<SeedRecord(5, "a"), SeedRecord(6, "b"), SeedRecord(8, "c")>>]
NoPrior == [pre |-> EmptyFile, record |-> NoRecord, input |-> BaseBody, made |-> FALSE]
NoStats == [total |-> 0, today |-> 0, thisMonth |-> 0]
NoneServed == [some |-> FALSE, body |-> <<>>]

\* A slot: the handler's request, its local variables and where it stands.
\* alone, loaded and prior are history: whether the request has overlapped no
\* other, the array a delete got from readRecords, and the create answered
\* just before a list arrived.
Idle ==
    [kind |-> "none", pc |-> "idle", alone |-> TRUE, auth |-> NoHeader,
     input |-> BaseBody, recordId |-> {}, loaded |-> <<>>, records |-> <<>>,
     record |-> NoRecord, prior |-> NoPrior]
\* A response, with the request it answers and what the handler did: pre is
\* the file as it was before the step that sent the response, and body the
\* array sent by a list or the array a delete got from readRecords.
NoResp ==
    [kind |-> "none", status |-> 0, alone |-> TRUE, auth |-> NoHeader, code |-> NoCode,
     token |-> <<>>, reissued |-> FALSE, tokensBefore |-> {}, input |-> BaseBody,
     recordId |-> {}, pre |-> EmptyFile, record |-> NoRecord, body |-> <<>>,
     stats |-> NoStats, prior |-> NoPrior, didRead |-> FALSE, didWrite |-> FALSE]

\* The server's time zone, as its offset from UTC in ms.
TimeZones == {0 - TickMs, 0, TickMs}

\* The server has started: initializeDataFile has made the file an empty
\* array unless a file was there.
Init ==
    /\ file = EmptyFile
    /\ validTokens = {}
    /\ timers = {}
    /\ now = StartMs
    /\ reqs = [i \in Slots |-> Idle]
    /\ last = NoResp
    /\ logins = {}
    /\ built = {}
    /\ served = NoneServed
    /\ shadow = <<>>

\* A faulty variant: a failed read or parse yields an entry and not [].
readRecordsNoCatch(f) == IF f.ok THEN f.data ELSE <<NoRecord>>
\* async readRecords(): the parsed file, or [] when reading or parsing throws.
readRecords(f) == IF f.ok THEN f.data ELSE <<>>
\* What fs.writeFile leaves in the file when it succeeds.
writeRecords(records) == [ok |-> TRUE, data |-> records]

AnyInFlight == \E k \in Slots : reqs[k].pc # "idle"
\* A request arrives: every handler in flight now overlaps another request.
Overlapped ==
    [k \in Slots |-> IF reqs[k].pc # "idle"
                     THEN [reqs[k] EXCEPT !.alone = FALSE, !.prior = NoPrior]
                     ELSE reqs[k]]
\* A new handler takes the lowest free slot.
Free(i) == reqs[i].pc = "idle" /\ \A k \in Slots : k < i => reqs[k].pc # "idle"

(***************************************************************************)
(* The token registry.                                                     *)
(***************************************************************************)
\* !code || !DEVELOPER_CODES.includes(code)
codeRejectedWhenEmpty(code) == ~code.defined \/ code.value = ""
codeRejected(code) ==
    ~code.defined \/ code.value = "" \/ code.value \notin DEVELOPER_CODES

\* The setTimeout callbacks that run: validTokens.delete(token) for each.
expireNone(tokens, fired) == tokens
expireTokens(tokens, fired) == tokens \ {t.token : t \in fired}

\* app.post('/api/dev-login'): the handler has no await and runs in one step.
DevLogin(code, suffix, cap) ==
    /\ IF codeRejected(code)
       THEN /\ last' = [NoResp EXCEPT !.kind = "login", !.status = 401, !.code = code,
                                      !.tokensBefore = validTokens, !.pre = file,
                                      !.alone = ~AnyInFlight]
            /\ UNCHANGED <<validTokens, timers, logins>>
       ELSE LET token == MakeToken(now, suffix)
            IN  /\ Cardinality(logins \cup {[token |-> token, at |-> now]}) <= cap
                /\ validTokens' = validTokens \cup {token}
                /\ timers' = timers \cup {[token |-> token, due |-> now + TokenTtlMs]}
                /\ logins' = logins \cup {[token |-> token, at |-> now]}
                /\ last' = [NoResp EXCEPT !.kind = "login", !.status = 200,
                                          !.code = code, !.token = token,
                                          !.reissued = (token \in {l.token : l \in logins}),
                                          !.tokensBefore = validTokens, !.pre = file,
                                          !.alone = ~AnyInFlight]
    /\ reqs' = Overlapped
    /\ UNCHANGED <<file, now>>

\* Time passes; the event loop runs the timer callbacks that have come due.
Tick ==
    /\ now < StartMs + MaxTicks * TickMs
    /\ now' = now + TickMs
    /\ LET fired == {t \in timers : t.due <= now'}
       IN  /\ validTokens' = expireTokens(validTokens, fired)
           /\ timers' = timers \ fired
    /\ last' = NoResp
    /\ UNCHANGED <<file, reqs, logins>>

\* checkDeveloperAuth: TRUE when it calls next(), FALSE when it answers 401.
\* The token is null for a missing header or another scheme; null and the
\* empty string are both falsy.
bearerToken(header) ==
    IF header.present /\ header.first7 = "Bearer " THEN header.rest ELSE <<>>
checkDeveloperAuthNoLookup(header, tokens) == bearerToken(header) # <<>>
checkDeveloperAuth(header, tokens) ==
    ~(bearerToken(header) = <<>> \/ bearerToken(header) \notin tokens)

\* The Authorization headers a client may send: none, a token some login
\* returned, a forged or an empty token, a valid token under another scheme.
AuthHeaders ==
    LET known == {l.token : l \in logins} \cup {ForgedToken, <<>>}
    IN  {NoHeader} \cup {Bearer(t) : t \in known}
                   \cup {Header("bearer ", t) : t \in validTokens}
\* The fewer headers sent where the handlers interleave.
StoreHeaders == {NoHeader} \cup {Bearer(l.token) : l \in logins}

Unauthorized(kind, header) ==
    /\ last' = [NoResp EXCEPT !.kind = kind, !.status = 401, !.auth = header,
                              !.tokensBefore = validTokens, !.pre = file,
                              !.alone = ~AnyInFlight]
    /\ reqs' = Overlapped

\* The create that was answered in the step before this one, when it
\* overlapped no other request and no handler is in flight.
PriorCreate ==
    IF last.kind = "create" /\ last.status = 201 /\ last.alone /\ ~AnyInFlight
    THEN [pre |-> last.pre, record |-> last.record, input |-> last.input, made |-> TRUE]
    ELSE NoPrior

\* The check passed: the handler runs up to its await of readRecords().
Proceed(i, kind, header, recordId) ==
    /\ reqs' = [Overlapped EXCEPT ![i] =
                  [Idle EXCEPT !.kind = kind, !.pc = "load", !.alone = ~AnyInFlight,
                               !.auth = header, !.recordId = recordId,
                               !.prior = IF kind = "list" THEN PriorCreate ELSE NoPrior]]
    /\ last' = NoResp

(***************************************************************************)
(* app.get('/api/records')                                                 *)
(***************************************************************************)
ListStart(i, header) ==
    /\ Free(i)
    /\ IF checkDeveloperAuth(header, validTokens)
       THEN Proceed(i, "list", header, {})
       ELSE Unauthorized("list", header)
    /\ UNCHANGED <<file, validTokens, timers, now, logins>>

\* A faulty variant: the handler writes back the array it read.
ListLoadRewrite(i) ==
    /\ reqs[i].kind = "list" /\ reqs[i].pc = "load"
    /\ file' = writeRecords(readRecords(file))
    /\ last' = [NoResp EXCEPT !.kind = "list", !.status = 200, !.auth = reqs[i].auth,
                              !.alone = reqs[i].alone, !.pre = file,
                              !.body = readRecords(file),
                              !.prior = reqs[i].prior,
                              !.didRead = TRUE]
    /\ reqs' = [reqs EXCEPT ![i] = Idle]
    /\ UNCHANGED <<validTokens, timers, now, logins>>
\* await readRecords() returns and res.json(records) answers.
ListLoad(i) ==
    /\ reqs[i].kind = "list" /\ reqs[i].pc = "load"
    /\ last' = [NoResp EXCEPT !.kind = "list", !.status = 200, !.auth = reqs[i].auth,
                              !.alone = reqs[i].alone, !.pre = file,
                              !.body = readRecords(file),
                              !.prior = reqs[i].prior,
                              !.didRead = TRUE]
    /\ reqs' = [reqs EXCEPT ![i] = Idle]
    /\ UNCHANGED <<file, validTokens, timers, now, logins>>

(***************************************************************************)
(* app.post('/api/records')                                                *)
(***************************************************************************)
\* !vendorName || !location || !phone || !issue
fieldsMissing(body) ==
    Falsy(body.vendorName) \/ Falsy(body.location) \/ Falsy(body.phone) \/ Falsy(body.issue)

\* The handler answers 400 before it reads the file.
rejected(body) == fieldsMissing(body) \/ ~phonePattern(body.phone)

newRecordUntrimmed(records, body, time) ==
    [id |-> nextId(records), vendorName |-> body.vendorName, location |-> body.location,
     phone |-> body.phone, issue |-> body.issue, date |-> time]
newRecord(records, body, time) ==
    [id |-> nextId(records),
     vendorName |-> trim(body.vendorName),
     location |-> trim(body.location),
     phone |-> trim(body.phone),
     issue |-> trim(body.issue),
     date |-> time]

CreateStart(i, body) ==
    /\ Free(i)
    /\ IF rejected(body)
       THEN /\ last' = [NoResp EXCEPT !.kind = "create", !.status = 400, !.input = body,
                                      !.pre = file, !.alone = ~AnyInFlight]
            /\ reqs' = Overlapped
       ELSE /\ reqs' = [Overlapped EXCEPT ![i] =
                           [Idle EXCEPT !.kind = "create", !.pc = "load",
                                        !.alone = ~AnyInFlight, !.input = body]]
            /\ last' = NoResp
    /\ UNCHANGED <<file, validTokens, timers, now, logins>>

\* await readRecords() returns; the record is built and pushed, and
\* writeRecords is called.
CreateLoad(i, cap) ==
    /\ reqs[i].kind = "create" /\ reqs[i].pc = "load"
    /\ LET records == readRecords(file)
           record  == newRecord(records, reqs[i].input, now)
       IN  /\ Len(records) < cap
           /\ record.id <= cap + 1
           /\ reqs' = [reqs EXCEPT ![i].pc = "save", ![i].record = record,
                                   ![i].records = Append(records, record)]
    /\ last' = NoResp
    /\ UNCHANGED <<file, validTokens, timers, now, logins>>

\* A variant that loads again before it writes: it appends its record to the
\* file as it is now.
CreateSaveReload(i) ==
    /\ reqs[i].kind = "create" /\ reqs[i].pc = "save"
    /\ file' = writeRecords(Append(readRecords(file), reqs[i].record))
    /\ last' = [NoResp EXCEPT !.kind = "create", !.status = 201, !.input = reqs[i].input,
                              !.alone = reqs[i].alone, !.pre = file,
                              !.record = reqs[i].record,
                              !.didRead = TRUE, !.didWrite = TRUE]
    /\ reqs' = [reqs EXCEPT ![i] = Idle]
    /\ UNCHANGED <<validTokens, timers, now, logins>>
\* fs.writeFile succeeds and the handler answers 201 with the record.
CreateSave(i) ==
    /\ reqs[i].kind = "create" /\ reqs[i].pc = "save"
    /\ file' = writeRecords(reqs[i].records)
    /\ last' = [NoResp EXCEPT !.kind = "create", !.status = 201, !.input = reqs[i].input,
                              !.alone = reqs[i].alone, !.pre = file,
                              !.record = reqs[i].record,
                              !.didRead = TRUE, !.didWrite = TRUE]
    /\ reqs' = [reqs EXCEPT ![i] = Idle]
    /\ UNCHANGED <<validTokens, timers, now, logins>>

\* fs.writeFile throws: the file could not be opened and is as it was, or it
\* was opened (and so truncated) and the data did not get written.
CreateSaveFail(i) ==
    /\ reqs[i].kind = "create" /\ reqs[i].pc = "save"
    /\ file' \in {file, Unparseable}
    /\ last' = [NoResp EXCEPT !.kind = "create", !.status = 500, !.input = reqs[i].input,
                              !.alone = reqs[i].alone, !.pre = file,
                              !.didRead = TRUE, !.didWrite = (file' # file)]
    /\ reqs' = [reqs EXCEPT ![i] = Idle]
    /\ UNCHANGED <<validTokens, timers, now, logins>>

(***************************************************************************)
(* app.delete('/api/records/:id')                                          *)
(***************************************************************************)
DeleteStart(i, header, param) ==
    /\ Free(i)
    /\ IF checkDeveloperAuth(header, validTokens)
       THEN Proceed(i, "delete", header, parseInt(param))
       ELSE Unauthorized("delete", header)
    /\ UNCHANGED <<file, validTokens, timers, now, logins>>

\* await readRecords() returns: 404 when no record has the id, else the record
\* is spliced out and writeRecords is called.
DeleteLoad(i) ==
    /\ reqs[i].kind = "delete" /\ reqs[i].pc = "load"
    /\ LET records == readRecords(file)
           index   == findIndex(records, reqs[i].recordId)
       IN  IF index = 0
           THEN /\ last' = [NoResp EXCEPT !.kind = "delete", !.status = 404,
                                          !.auth = reqs[i].auth, !.alone = reqs[i].alone,
                                          !.recordId = reqs[i].recordId,
                                          !.pre = file, !.body = records,
                                          !.didRead = TRUE]
                /\ reqs' = [reqs EXCEPT ![i] = Idle]
           ELSE /\ reqs' = [reqs EXCEPT ![i].pc = "save", ![i].loaded = records,
                                        ![i].records = splice(records, index)]
                /\ last' = NoResp
    /\ UNCHANGED <<file, validTokens, timers, now, logins>>

DeleteSave(i) ==
    /\ reqs[i].kind = "delete" /\ reqs[i].pc = "save"
    /\ file' = writeRecords(reqs[i].records)
    /\ last' = [NoResp EXCEPT !.kind = "delete", !.status = 200, !.auth = reqs[i].auth,
                              !.alone = reqs[i].alone, !.recordId = reqs[i].recordId,
                              !.pre = file, !.body = reqs[i].loaded,
                              !.didRead = TRUE, !.didWrite = TRUE]
    /\ reqs' = [reqs EXCEPT ![i] = Idle]
    /\ UNCHANGED <<validTokens, timers, now, logins>>

DeleteSaveFail(i) ==
    /\ reqs[i].kind = "delete" /\ reqs[i].pc = "save"
    /\ file' \in {file, Unparseable}
    /\ last' = [NoResp EXCEPT !.kind = "delete", !.status = 500, !.auth = reqs[i].auth,
                              !.alone = reqs[i].alone, !.recordId = reqs[i].recordId,
                              !.pre = file, !.body = reqs[i].loaded,
                              !.didRead = TRUE, !.didWrite = (file' # file)]
    /\ reqs' = [reqs EXCEPT ![i] = Idle]
    /\ UNCHANGED <<validTokens, timers, now, logins>>

(***************************************************************************)
(* app.get('/api/stats')                                                   *)
(***************************************************************************)
StatsStart(i, header) ==
    /\ Free(i)
    /\ IF checkDeveloperAuth(header, validTokens)
       THEN Proceed(i, "stats", header, {})
       ELSE Unauthorized("stats", header)
    /\ UNCHANGED <<file, validTokens, timers, now, logins>>

countStats(records, time, tz) ==
    [total |-> Len(records),
     today |-> Cardinality({k \in 1..Len(records) :
                  toDateString(records[k].date, tz) = toDateString(time, tz)}),
     thisMonth |-> Cardinality({k \in 1..Len(records) :
                  isoMonth(records[k].date) = isoMonth(time)})]

\* await readRecords() returns and the counts are answered; tz is the time
\* zone the runtime formats local dates in.
StatsLoad(i, tz) ==
    /\ reqs[i].kind = "stats" /\ reqs[i].pc = "load"
    /\ last' = [NoResp EXCEPT !.kind = "stats", !.status = 200, !.auth = reqs[i].auth,
                              !.alone = reqs[i].alone, !.pre = file,
                              !.stats = countStats(readRecords(file), now, tz),
                              !.didRead = TRUE]
    /\ reqs' = [reqs EXCEPT ![i] = Idle]
    /\ UNCHANGED <<file, validTokens, timers, now, logins>>

(***************************************************************************)
(* The server.                                                             *)
(***************************************************************************)
\* A developer has logged in.
\* The server has started over a file that earlier runs left.
Started ==
    /\ file \in {EmptyFile, SeedFile}
    /\ validTokens = {}
    /\ timers = {}
    /\ now = StartMs
    /\ reqs = [i \in Slots |-> Idle]
    /\ last = NoResp
    /\ logins = {}
    /\ built = {}
    /\ served = NoneServed
    /\ shadow = readRecords(file)

LoggedIn ==
    LET token == MakeToken(StartMs, "k3f9a0b1c")
    IN  /\ file \in {EmptyFile, SeedFile}
        /\ validTokens = {token}
        /\ timers = {[token |-> token, due |-> StartMs + TokenTtlMs]}
        /\ now = StartMs
        /\ reqs = [i \in Slots |-> Idle]
        /\ last = NoResp
        /\ logins = {[token |-> token, at |-> StartMs]}
        /\ built = {}
        /\ served = NoneServed
        /\ shadow = readRecords(file)

\* The history variables are left alone where no property reads them.
Untracked == UNCHANGED <<built, served, shadow>>

\* The store: two handlers at a time, the clock frozen, every write
\* succeeding.
Next ==
    \/ \E i \in Slots, header \in StoreHeaders : ListStart(i, header) /\ Untracked
    \/ \E i \in Slots : ListLoad(i) /\ Untracked
    \/ \E i \in Slots, body \in StoreBodies : CreateStart(i, body) /\ Untracked
    \/ \E i \in Slots : CreateLoad(i, MaxRecords) /\ Untracked
    \/ \E i \in Slots : CreateSave(i) /\ Untracked
    \/ \E i \in Slots, header \in StoreHeaders, param \in IdParams :
          DeleteStart(i, header, param) /\ Untracked
    \/ \E i \in Slots : DeleteLoad(i) /\ Untracked
    \/ \E i \in Slots : DeleteSave(i) /\ Untracked

Spec == LoggedIn /\ [][Next]_vars

\* The store started on a file that cannot be parsed: initializeDataFile
\* only checks that the file exists.
Damaged ==
    LET token == MakeToken(StartMs, "k3f9a0b1c")
    IN  /\ file = Unparseable
        /\ validTokens = {token}
        /\ timers = {[token |-> token, due |-> StartMs + TokenTtlMs]}
        /\ now = StartMs
        /\ reqs = [i \in Slots |-> Idle]
        /\ last = NoResp
        /\ logins = {[token |-> token, at |-> StartMs]}
        /\ built = {}
        /\ served = NoneServed
        /\ shadow = <<>>

SpecDamaged == Damaged /\ [][Next]_vars

\* The store where fs.writeFile may throw.
NextFault ==
    \/ Next
    \/ \E i \in Slots : CreateSaveFail(i) /\ Untracked
    \/ \E i \in Slots : DeleteSaveFail(i) /\ Untracked

SpecFault == LoggedIn /\ [][NextFault]_vars

\* The registry: one handler at a time, the clock running, every write
\* succeeding.
NextClock ==
    \/ \E code \in CodeInputs, suffix \in RandomSuffixes : DevLogin(code, suffix, MaxLogins) /\ Untracked
    \/ Tick /\ Untracked
    \/ \E header \in AuthHeaders : ListStart(1, header) /\ Untracked
    \/ ListLoad(1) /\ Untracked
    \/ \E header \in AuthHeaders, param \in ClockParams : DeleteStart(1, header, param) /\ Untracked
    \/ DeleteLoad(1) /\ Untracked
    \/ DeleteSave(1) /\ Untracked
    \/ \E header \in AuthHeaders : StatsStart(1, header) /\ Untracked
    \/ \E tz \in TimeZones : StatsLoad(1, tz) /\ Untracked

SpecClock == Started /\ [][NextClock]_vars

\* Create alone, over every request body.
NextCreate ==
    \/ \E i \in Slots, body \in CreateBodies : CreateStart(i, body) /\ Untracked
    \/ \E i \in Slots : CreateLoad(i, MaxRecords) /\ Untracked
    \/ \E i \in Slots : CreateSave(i) /\ Untracked
    \/ \E i \in Slots : CreateSaveFail(i) /\ Untracked

SpecCreate == Init /\ [][NextCreate]_vars

\* Creates and statistics as the clock runs, one handler at a time.
NextStats ==
    \/ Tick /\ Untracked
    \/ CreateStart(1, BaseBody) /\ Untracked
    \/ CreateLoad(1, MaxRecords) /\ Untracked
    \/ CreateSave(1) /\ Untracked
    \/ \E header \in StoreHeaders : StatsStart(1, header) /\ Untracked
    \/ \E tz \in TimeZones : StatsLoad(1, tz) /\ Untracked

SpecStats == LoggedIn /\ [][NextStats]_vars

(***************************************************************************)
(* History.  A step's response, last', tells what the step did.            *)
(***************************************************************************)
\* The array of the latest list, forgotten when fs.writeFile has been called.
TrackServed ==
    served' = IF last'.kind \in {"create", "delete"} /\ last'.status \in {200, 201, 500}
              THEN NoneServed
              ELSE IF last'.kind = "list" /\ last'.status = 200
                   THEN [some |-> TRUE, body |-> last'.body]
                   ELSE served
\* The records sent with a 201.
TrackBuilt ==
    built' = IF last'.kind = "create" /\ last'.status = 201
             THEN built \cup {last'.record}
             ELSE built
\* A 201 appends its record and a 200 of a delete removes the record of its id.
TrackShadow ==
    shadow' = IF last'.kind = "create" /\ last'.status = 201
              THEN Append(shadow, last'.record)
              ELSE IF last'.kind = "delete" /\ last'.status = 200
                   THEN SelectSeq(shadow, LAMBDA r : r.id \notin last'.recordId)
                   ELSE shadow

\* Every route on the file, two handlers at a time, with writes that may
\* fail; the clock is frozen.  The latest list is remembered.
Reads == TrackServed /\ UNCHANGED <<built, shadow>>
NextRead ==
    \/ \E i \in Slots, header \in StoreHeaders : ListStart(i, header) /\ Reads
    \/ \E i \in Slots : ListLoad(i) /\ Reads
    \/ \E i \in Slots, body \in StoreBodies : CreateStart(i, body) /\ Reads
    \/ \E i \in Slots : CreateLoad(i, MaxRecords) /\ Reads
    \/ \E i \in Slots : CreateSave(i) /\ Reads
    \/ \E i \in Slots : CreateSaveFail(i) /\ Reads
    \/ \E i \in Slots, header \in StoreHeaders, param \in IdParams :
          DeleteStart(i, header, param) /\ Reads
    \/ \E i \in Slots : DeleteLoad(i) /\ Reads
    \/ \E i \in Slots : DeleteSave(i) /\ Reads
    \/ \E i \in Slots : DeleteSaveFail(i) /\ Reads
    \/ \E i \in Slots, header \in StoreHeaders : StatsStart(i, header) /\ Reads
    \/ \E i \in Slots, tz \in TimeZones : StatsLoad(i, tz) /\ Reads

SpecRead == LoggedIn /\ [][NextRead]_vars

\* The store with one handler at a time, so that no two requests overlap.
\* The records returned and the order of appends and removals are remembered.
Serial == TrackBuilt /\ TrackShadow /\ UNCHANGED served
NextSerial ==
    \/ \E header \in StoreHeaders : ListStart(1, header) /\ Serial
    \/ ListLoad(1) /\ Serial
    \/ \E body \in StoreBodies : CreateStart(1, body) /\ Serial
    \/ CreateLoad(1, MaxRecords) /\ Serial
    \/ CreateSave(1) /\ Serial
    \/ \E header \in StoreHeaders, param \in IdParams : DeleteStart(1, header, param) /\ Serial
    \/ DeleteLoad(1) /\ Serial
    \/ DeleteSave(1) /\ Serial

SpecSerial == LoggedIn /\ [][NextSerial]_vars

\* The records the create handlers have built and returned, kept while two
\* handlers interleave and fs.writeFile may throw.
Builds == TrackBuilt /\ UNCHANGED <<served, shadow>>
NextBuilt ==
    \/ \E i \in Slots, header \in StoreHeaders : ListStart(i, header) /\ Builds
    \/ \E i \in Slots : ListLoad(i) /\ Builds
    \/ \E i \in Slots, body \in StoreBodies : CreateStart(i, body) /\ Builds
    \/ \E i \in Slots : CreateLoad(i, MaxRecords) /\ Builds
    \/ \E i \in Slots : CreateSave(i) /\ Builds
    \/ \E i \in Slots : CreateSaveFail(i) /\ Builds
    \/ \E i \in Slots, header \in StoreHeaders, param \in IdParams :
          DeleteStart(i, header, param) /\ Builds
    \/ \E i \in Slots : DeleteLoad(i) /\ Builds
    \/ \E i \in Slots : DeleteSave(i) /\ Builds
    \/ \E i \in Slots : DeleteSaveFail(i) /\ Builds
SpecBuilt == LoggedIn /\ [][NextBuilt]_vars

(***************************************************************************)
(* Properties.                                                             *)
(***************************************************************************)
Fields == {"vendorName", "location", "phone", "issue"}
Gated == {"list", "delete", "stats"}
Collection(f) == IF f.ok THEN f.data ELSE <<>>
Ids(records) == {records[k].id : k \in 1..Len(records)}
Largest(S) == CHOOSE m \in S : \A x \in S : x <= m
\* t is s without the white space at its two ends.
IsTrimOf(t, s) ==
    \E a \in 0..Len(s) :
        /\ a + Len(t) <= Len(s)
        /\ SubSeq(s, a + 1, a + Len(t)) = t
        /\ \A k \in 1..a : s[k] \in WhiteSpace
        /\ \A k \in (a + Len(t) + 1)..Len(s) : s[k] \in WhiteSpace
        /\ t # <<>> => t[1] \notin WhiteSpace /\ t[Len(t)] \notin WhiteSpace
\* +233 or 0, then nine digits, and nothing else.
FormatOk(p) ==
    \E n \in {1, 4} :
        /\ Len(p) = n + 9
        /\ SubSeq(p, 1, n) \in {<<"0">>, <<"+", "2", "3", "3">>}
        /\ \A k \in (n + 1)..Len(p) : p[k] \in Digits
FieldAbsent(body) == \E f \in Fields : body[f] \in {Undefined, <<>>}
Front(s) == SubSeq(s, 1, Len(s) - 1)
ValidInput(body) ==
    /\ \A f \in Fields : body[f] # Undefined /\ \E k \in 1..Len(body[f]) : body[f][k] \notin WhiteSpace
    /\ FormatOk(body.phone)

\* C1: in every reachable state, whatever the interleaving of creates and
\* deletes (and whether or not a write fails), no two records of the backing
\* file have the same id.
C1_UniqueIds ==
    file.ok => \A j, k \in 1..Len(file.data) : j # k => file.data[j].id # file.data[k].id
\* Two records are in the file after a create that overlapped another request
\* and followed a delete.
C1_Witness ==
    /\ last.kind = "create" /\ last.status = 201 /\ ~last.alone
    /\ file.ok /\ Len(file.data) = 2 /\ file.data[1].id > 1

\* C2: a create with valid input that no request overlaps, followed by an
\* authorized list that no request overlaps, shows the collection as it was
\* before the create plus exactly one new last entry, whose id is the largest
\* previous id plus one (1 for an empty collection) and whose four fields are
\* the inputs trimmed.
C2_CreateThenList ==
    (last.kind = "list" /\ last.status = 200 /\ last.prior.made
        /\ ValidInput(last.prior.input)) =>
    LET prev == Collection(last.prior.pre)
        new == last.body[Len(last.body)]
    IN  /\ Len(last.body) = Len(prev) + 1
        /\ SubSeq(last.body, 1, Len(prev)) = prev
        /\ new.id = IF prev = <<>> THEN 1 ELSE Largest(Ids(prev)) + 1
        /\ \A f \in Fields : IsTrimOf(new[f], last.prior.input[f])
\* The list follows a create of padded fields over a collection whose largest
\* id is not its length.
C2_Witness ==
    /\ last.kind = "list" /\ last.status = 200 /\ last.prior.made
    /\ last.prior.input = PaddedBody
    /\ Collection(last.prior.pre) # <<>>
    /\ Largest(Ids(Collection(last.prior.pre))) # Len(Collection(last.prior.pre))

\* C3: a list, delete or statistics request is answered 401 in the step that
\* receives it, with the file as it was and no handler started, and a request
\* of these kinds starts its handler only with an Authorization header of
\* "Bearer " and a token that is in the registry at that moment.
C3_Gated ==
    [][/\ (last'.kind \in Gated /\ last'.status = 401) =>
              /\ file' = file
              /\ ~last'.didRead /\ ~last'.didWrite
              /\ \A i \in Slots : reqs'[i].pc = reqs[i].pc
       /\ \A i \in Slots :
              (reqs[i].pc = "idle" /\ reqs'[i].pc # "idle" /\ reqs'[i].kind \in Gated) =>
                  /\ reqs'[i].auth.present
                  /\ reqs'[i].auth.first7 = "Bearer "
                  /\ reqs'[i].auth.rest \in validTokens]_vars
\* A delete carrying a token that was issued and has expired is answered 401
\* over a file that holds records.
C3_Witness ==
    /\ last.kind = "delete" /\ last.status = 401
    /\ last.auth.present /\ last.auth.first7 = "Bearer "
    /\ last.auth.rest \in {l.token : l \in logins}
    /\ last.auth.rest \notin last.tokensBefore
    /\ file = SeedFile

\* C4: a token that a login issued is accepted by the gate exactly while
\* fewer than 24 hours have passed since it was issued; from then on it is
\* rejected in every later state (given that due timers run).
C4_TokenLifetime ==
    \A l \in logins :
        checkDeveloperAuth(Bearer(l.token), validTokens) <=> now < l.at + 24 * 60 * 60 * 1000
\* One token has expired while a token issued later is still accepted.
C4_Witness ==
    \E l, m \in logins :
        /\ now >= l.at + 24 * 60 * 60 * 1000 /\ l.token \notin validTokens
        /\ m.at > l.at /\ m.token \in validTokens

\* C5: no login returns a token that an earlier login of the same process
\* returned.
C5_TokensUnique ==
    (last.kind = "login" /\ last.status = 200) => ~last.reissued

\* C6: a login is answered 200, with a token that the step adds to the
\* registry, if its code is exactly one of the four developer codes; any other
\* login is answered 401 and leaves the registry as it was.
C6_Login ==
    last.kind = "login" =>
        IF last.code.defined /\ last.code.value \in
               {"letmein", "DEV-ECG-2024-ALPHA", "ECG-DEV-ADMIN-001", "ECG-IT-DEV-ACCESS"}
        THEN /\ last.status = 200
             /\ last.token \in validTokens
             /\ validTokens = last.tokensBefore \cup {last.token}
        ELSE /\ last.status = 401
             /\ validTokens = last.tokensBefore
\* A code with a trailing space is refused while the registry holds a token.
C6_Witness ==
    /\ last.kind = "login" /\ last.status = 401
    /\ last.code.defined /\ last.code.value = "letmein "
    /\ validTokens # {}

\* C7: every record in the backing file has a non-empty vendorName, location,
\* phone and issue.
C7_FieldsNonEmpty ==
    file.ok => \A k \in 1..Len(file.data) : \A f \in Fields : file.data[k][f] # <<>>

\* C8: a create whose body lacks a field, or has an empty one, or has a phone
\* that is not +233 or 0 followed by nine digits, is answered 400 with the
\* file as it was, and no handler holding such a body is past validation.
C8_Validation ==
    /\ (last.kind = "create" /\ (FieldAbsent(last.input) \/ ~FormatOk(last.input.phone))) =>
           /\ last.status = 400
           /\ ~last.didRead /\ ~last.didWrite
           /\ file = last.pre
    /\ \A i \in Slots :
           (reqs[i].kind = "create" /\ reqs[i].pc # "idle") =>
               ~FieldAbsent(reqs[i].input) /\ FormatOk(reqs[i].input.phone)
\* A phone with a line feed after its ten digits is refused over a file that
\* holds a record.
C8_Witness ==
    /\ last.kind = "create" /\ last.status = 400
    /\ last.input.phone = Phone0 \o <<"\n">>
    /\ file.ok /\ Len(file.data) >= 1

\* C9: an authorized delete whose parsed id is the id of no record in the
\* collection it loaded is answered 404 and leaves the file as it was.
C9_DeleteMissing ==
    (last.kind = "delete" /\ last.status # 401 /\ last.recordId \cap Ids(last.body) = {}) =>
        /\ last.status = 404
        /\ ~last.didWrite
        /\ file = last.pre
\* A delete of a number that no record has is answered 404 over a collection
\* that holds records.
C9_Witness ==
    /\ last.kind = "delete" /\ last.status = 404
    /\ last.recordId # {} /\ Len(last.body) >= 1

\* C10: an authorized delete that no request overlaps, of an id that a record
\* of the collection has, is answered 200 and leaves the file holding the
\* previous collection less that one record, the others in their order.
C10_DeletePresent ==
    (last.kind = "delete" /\ last.alone /\ last.status # 401
        /\ last.recordId \cap Ids(last.body) # {}) =>
    /\ last.status = 200
    /\ last.body = Collection(last.pre)
    /\ file.ok
    /\ file.data = SelectSeq(last.body, LAMBDA r : r.id \notin last.recordId)
    /\ Len(file.data) = Len(last.body) - 1
\* The middle one of three records has been deleted.
C10_Witness ==
    /\ last.kind = "delete" /\ last.alone /\ last.status = 200
    /\ Len(last.body) = 3
    /\ file.ok /\ Ids(file.data) = {last.body[1].id, last.body[3].id}

C12_LoadNeverFails ==
    [][\A i \in Slots :
          (reqs[i].pc = "load" /\ reqs'[i].pc # "load" /\ ~file.ok) =>
              CASE reqs[i].kind = "list" ->
                       last'.kind = "list" /\ last'.status = 200 /\ last'.body = <<>>
                [] reqs[i].kind = "delete" ->
                       /\ last'.kind = "delete" /\ last'.status = 404
                       /\ reqs'[i].pc = "idle" /\ file' = file
                [] reqs[i].kind = "stats" ->
                       last'.kind = "stats" /\ last'.status = 200 /\ last'.stats.total = 0
                [] OTHER ->
                       reqs'[i].pc = "save" /\ Len(reqs'[i].records) = 1]_vars
\* A delete of a number has been answered 404 over a file that cannot be
\* parsed.
C12_Witness ==
    /\ last.kind = "delete" /\ last.status = 404 /\ last.recordId # {}
    /\ ~last.pre.ok /\ ~file.ok

\* C13: when a create or a delete has been answered 500, the backing file
\* holds the collection it held before that request called fs.writeFile.
C13_SaveFailure ==
    (last.kind \in {"create", "delete"} /\ last.status = 500) =>
        Collection(file) = Collection(last.pre)

\* C14: statistics answered 200 have total equal to the number of records in
\* the collection and today <= thisMonth <= total.
C14_StatsOrder ==
    (last.kind = "stats" /\ last.status = 200) =>
        /\ last.stats.total = Len(Collection(last.pre))
        /\ last.stats.today <= last.stats.thisMonth
        /\ last.stats.thisMonth <= last.stats.total

\* C15: where no two requests overlap, a create answered 201 returns an id
\* greater than the id of every record that an earlier create returned.
C15_MonotoneIds ==
    [][(last'.kind = "create" /\ last'.status = 201) =>
           \A r \in built : last'.record.id > r.id]_vars

\* C16: two creates that wait to save arrays built on the same loaded
\* collection hold records of the same id; and when one of them saves and is
\* answered 201 after the other has saved (the file holds the collection both
\* loaded and then a record of that id), the file afterwards holds the loaded
\* collection and only the record of the create that saved last.
C16_LostUpdate ==
    [][/\ \A i, j \in Slots :
              (/\ reqs[i].kind = "create" /\ reqs[i].pc = "save"
               /\ reqs[j].kind = "create" /\ reqs[j].pc = "save"
               /\ Front(reqs[i].records) = Front(reqs[j].records)) =>
                  reqs[i].record.id = reqs[j].record.id
       /\ \A i \in Slots :
              (/\ reqs[i].kind = "create" /\ reqs[i].pc = "save"
               /\ reqs'[i].pc = "idle" /\ last'.status = 201
               /\ file.ok /\ file.data # <<>>
               /\ Front(file.data) = Front(reqs[i].records)
               /\ file.data[Len(file.data)].id = reqs[i].record.id) =>
                  /\ last'.kind = "create"
                  /\ last'.record = reqs[i].record
                  /\ file' = [ok |-> TRUE,
                              data |-> Append(Front(file.data), last'.record)]]_vars
\* Two creates with different bodies were both given id 1; the record of the
\* one that saved first was in the file and is gone.
C16_Witness ==
    /\ last.kind = "create" /\ last.status = 201 /\ ~last.alone
    /\ last.pre.ok /\ Len(last.pre.data) = 1
    /\ last.pre.data[1].id = last.record.id
    /\ last.pre.data[1] # last.record
    /\ file.data = <<last.record>>
    /\ ~AnyInFlight

\* C17: when a delete has just been answered 200 and a create that loaded
\* the collection while it still held the removed record then saves, the
\* create is answered 201 and the removed record is in the file again.
C17_Resurrection ==
    [][\A i \in Slots : \A k \in DOMAIN last.pre.data :
          (/\ last.kind = "delete" /\ last.status = 200
           /\ last.pre.data[k].id \in last.recordId
           /\ \A n \in DOMAIN file.data : file.data[n] # last.pre.data[k]
           /\ reqs[i].kind = "create" /\ reqs[i].pc = "save"
           /\ \E n \in DOMAIN Front(reqs[i].records) :
                  reqs[i].records[n] = last.pre.data[k]
           /\ reqs'[i].pc = "idle") =>
              /\ last'.kind = "create" /\ last'.status = 201
              /\ file'.ok
              /\ \E n \in DOMAIN file'.data : file'.data[n] = last.pre.data[k]]_vars
\* A create has saved two records over a file that a delete had emptied after
\* the create loaded: record 1, removed by the delete, is back.
C17_Witness ==
    /\ last.kind = "create" /\ last.status = 201 /\ ~last.alone
    /\ last.pre = EmptyFile
    /\ Len(file.data) = 2
    /\ file.data[1].id = 1 /\ file.data[2] = last.record
    /\ ~AnyInFlight

\* C18: each record in the file is, field for field, a record that a create
\* handler built and returned with 201, or one the file held when the server
\* started; and a handler's write only appends its new record to what it
\* loaded or removes one record from it.
C18_NeverEdited ==
    /\ file.ok => \A k \in DOMAIN file.data :
           \/ file.data[k] \in built
           \/ \E n \in DOMAIN SeedFile.data : file.data[k] = SeedFile.data[n]
    /\ \A i \in Slots : reqs[i].pc = "save" =>
           \A k \in DOMAIN reqs[i].records :
              \/ reqs[i].kind = "create" /\ k = Len(reqs[i].records)
              \/ reqs[i].records[k] \in built
              \/ \E n \in DOMAIN SeedFile.data : reqs[i].records[k] = SeedFile.data[n]
\* A delete that overlapped another request has removed a record, and the
\* file still holds a record a create built.
C18_Witness ==
    /\ last.kind = "delete" /\ last.status = 200 /\ ~last.alone
    /\ file.ok /\ file.data # <<>>
    /\ file.data[1] \in built
    /\ Len(last.pre.data) = 2
    /\ \E i \in Slots : reqs[i].kind = "create" /\ reqs[i].pc = "save"

\* C19: when no two requests overlap, the file holds, and an authorized list
\* returns, the records in the order in which their creates were answered:
\* the records present at start, then each created record appended at the
\* end, with each deleted record taken out and the others left in order.
C19_InsertionOrder ==
    /\ file.ok /\ file.data = shadow
    /\ (last.kind = "list" /\ last.status = 200) => last.body = shadow
\* A list returns records 2 and 3 in that order: record 1 was created first
\* and deleted, record 3 was created after the deletion.
C19_Witness ==
    /\ last.kind = "list" /\ last.status = 200
    /\ Len(last.body) = 2
    /\ last.body[1].id = 2 /\ last.body[2].id = 3
    /\ last.body = shadow
    /\ {last.body[1], last.body[2]} \subseteq built

\* C20: a create that loads while the file cannot be parsed reports no error
\* and goes on to save an array holding only its own record, with id 1; and
\* a create that saves such an array is answered 201 with that record, the
\* file then holding that record and nothing else.
C20_SilentDegradation ==
    [][\A i \in Slots :
          /\ (/\ reqs[i].kind = "create" /\ reqs[i].pc = "load"
              /\ reqs'[i].pc # "load" /\ ~file.ok) =>
                 /\ reqs'[i].pc = "save"
                 /\ reqs'[i].record.id = 1
                 /\ reqs'[i].records = <<reqs'[i].record>>
                 /\ last'.status = 0
                 /\ file' = file
          /\ (/\ reqs[i].kind = "create" /\ reqs[i].pc = "save"
              /\ Len(reqs[i].records) = 1
              /\ reqs'[i].pc = "idle") =>
                 /\ last'.kind = "create" /\ last'.status = 201
                 /\ last'.record = reqs[i].record /\ last'.record.id = 1
                 /\ file' = [ok |-> TRUE, data |-> <<last'.record>>]]_vars
\* A create that overlapped nothing was answered 201 with id 1 over a file
\* that could not be parsed, and the file now holds its record alone.
C20_Witness ==
    /\ last.kind = "create" /\ last.status = 201 /\ last.alone
    /\ ~last.pre.ok
    /\ last.record.id = 1
    /\ file = [ok |-> TRUE, data |-> <<last.record>>]

=============================================================================
